---- MODULE Spec2Model ----
(***************************************************************************)
(* Model of the goplan travel-planning backend:                            *)
(*   app/agent_graph.py  the LangGraph workflow (nodes, router, graph)     *)
(*   app/main.py         the FastAPI endpoints and the active_requests     *)
(*                       store                                             *)
(*                                                                         *)
(* Python values are modelled as follows.  A dict is a function whose      *)
(* DOMAIN is its key set; None, True and False are the strings "None",     *)
(* "True" and "False"; a list is a sequence; free text produced by a       *)
(* provider is an abstract token.                                          *)
(*                                                                         *)
(* The workflow runs on LangGraph's Pregel engine.  What the model takes   *)
(* from the engine is stated where it is used:                             *)
(*   - a state key without a reducer is a LastValue channel, which accepts *)
(*     at most one write per superstep (apply_writes);                     *)
(*   - interrupt() without a resume value ends the run and, in             *)
(*     stream_mode="updates", is reported as the event                     *)
(*     {"__interrupt__": (Interrupt(...),)}, whose update is a tuple;      *)
(*   - ainvoke on an interrupted run returns the current state values.     *)
(***************************************************************************)
EXTENDS Integers, Sequences, FiniteSets, TLC

VARIABLES
    active_requests,  \* main.py:74   request_id -> request info (a dict)
    calls,            \* start calls issued so far: request_id -> call record
    threads,          \* MemorySaver checkpoints: thread_id -> graph run state
    next_uuid,        \* uuid.uuid4(): the next fresh identifier
    reply,            \* what the step just taken answered, when it was a
                      \* /resume-trip or /cancel-request request
    route_input,      \* router harness: the TravelState handed to the router
    route_output,     \* router harness: the decision it returned
    node_state,       \* node harness: the TravelState handed to a node function
    node_result,      \* node harness: the node that ran and what it returned
    route_calls       \* router harness: how often the router was called

vars == <<active_requests, calls, threads, next_uuid, reply, route_input, route_output,
          node_state, node_result, route_calls>>

(***************************************************************************)
(* Bounds of the model                                                     *)
(***************************************************************************)
\* start calls (/plan-trip, /plan-trip-streaming) issued in one behaviour
MaxCalls == 1

\* calls of the router on one state in the router's harness
MaxRouteCalls == 2

(***************************************************************************)
(* Python values                                                           *)
(***************************************************************************)
None == "None"
PyTrue == "True"
PyFalse == "False"

\* bool(v) for the values the model uses
Truthy(v) == v \notin {None, PyFalse, ""}

\* {} : the dict without keys
EmptyDict == [k \in {} |-> None]

\* d.get(k, default)
DictGet(d, k, default) == IF k \in DOMAIN d THEN d[k] ELSE default

\* d after d[k] = v
DictSet(d, k, v) == [x \in DOMAIN d \cup {k} |-> IF x = k THEN v ELSE d[x]]

\* d.pop(k, None)
DictPop(d, k) == [x \in DOMAIN d \ {k} |-> d[x]]

(***************************************************************************)
(* agent_graph.py: the router                                              *)
(***************************************************************************)
FanOutNodes == {"get_flight_recommendations", "get_hotel_recommendations",
                "get_activity_recommendations"}

required_fields == <<"origin", "destination", "date_leaving", "date_returning">>

\* The decision is a set of node names: the str "get_next_user_message" is the
\* one-element set, the returned list is the three-element set.
route_after_info_gathering_ignores_the_error(state) ==
    LET travel_details == state.travel_details
        all_details_given == DictGet(travel_details, "all_details_given", PyTrue)
        has_required_fields ==
            \A i \in 1..Len(required_fields) : required_fields[i] \in DOMAIN travel_details
    IN  IF ~Truthy(all_details_given) \/ ~has_required_fields
        THEN {"get_next_user_message"}
        ELSE FanOutNodes

route_after_info_gathering_skips_the_flag(state) ==
    LET travel_details == state.travel_details
        has_required_fields ==
            \A i \in 1..Len(required_fields) : required_fields[i] \in DOMAIN travel_details
    IN  IF "error" \in DOMAIN travel_details
        THEN {"get_next_user_message"}
        ELSE IF ~has_required_fields
             THEN {"get_next_user_message"}
             ELSE FanOutNodes

route_after_info_gathering(state) ==
    LET travel_details == state.travel_details
        all_details_given == DictGet(travel_details, "all_details_given", PyTrue)
        has_required_fields ==
            \A i \in 1..Len(required_fields) : required_fields[i] \in DOMAIN travel_details
    IN  IF "error" \in DOMAIN travel_details
        THEN {"get_next_user_message"}
        ELSE IF ~Truthy(all_details_given) \/ ~has_required_fields
             THEN {"get_next_user_message"}
             ELSE FanOutNodes

\* A call of the router as its caller sees it: the decision returned and the
\* state dict after the call.  The function reads the dict and assigns to none
\* of its keys.
RouterCall_sets_the_default_flag(state) ==
    [decision |-> route_after_info_gathering(state),
     state |-> [state EXCEPT !.travel_details =
                   DictSet(@, "all_details_given", DictGet(@, "all_details_given", PyTrue))]]

RouterCall(state) ==
    [decision |-> route_after_info_gathering(state), state |-> state]

(***************************************************************************)
(* The environment: callers and providers                                  *)
(***************************************************************************)
\* What a caller may type.  "no_dates" names a destination only,
\* "all_details" gives origin, destination and both dates.
UserInputs == {"no_dates", "all_details"}

\* The caller's preferences (TravelRequest / StreamingTravelRequest, main.py:48-67):
\* the defaults and one non-default choice.
Preferences ==
    { [preferred_airlines |-> <<>>, hotel_amenities |-> <<>>, budget_level |-> "medium"],
      [preferred_airlines |-> <<"KLM">>, hotel_amenities |-> <<"Pool">>,
       budget_level |-> "luxury"] }

Requests ==
    { [user_input |-> u, preferred_airlines |-> p.preferred_airlines,
       hotel_amenities |-> p.hotel_amenities, budget_level |-> p.budget_level] :
      u \in UserInputs, p \in Preferences }

\* TravelDetails(...).model_dump(): every field of the model is a key of the dict,
\* an unfilled Optional field carries None.
TravelDetails(origin, destination, date_leaving, date_returning, all_details_given) ==
    [response |-> "response", destination |-> destination, origin |-> origin,
     date_leaving |-> date_leaving, date_returning |-> date_returning,
     max_hotel_price |-> None, all_details_given |-> all_details_given]

\* What the extraction provider (info_gathering_agent.run_stream) can do with an
\* input: raise, or return a TravelDetails whose fields are those the input gives.
\* all_details_given is set by the provider; nothing validates it against the
\* fields, so on an input without dates it may come back False or True.
ExtractionOutcomes(user_input) ==
    {[raised |-> TRUE, data |-> EmptyDict]} \cup
    IF user_input = "all_details"
    THEN {[raised |-> FALSE,
           data |-> TravelDetails("NYC", "Paris", "09-15", "09-22", PyTrue)]}
    ELSE {[raised |-> FALSE, data |-> TravelDetails(None, "Paris", None, None, flag)] :
          flag \in {PyFalse, PyTrue}}

(***************************************************************************)
(* agent_graph.py: the state and the nodes.  A node is a function from the *)
(* state (and what its provider does) to the partial update it returns.    *)
(***************************************************************************)
\* initial_state of run_travel_agent_simple
simple_initial_state(thread_id, user_input) ==
    [thread_id |-> thread_id, user_input |-> user_input, messages |-> <<>>,
     travel_details |-> EmptyDict, preferred_airlines |-> <<>>,
     hotel_amenities |-> <<"Wi-Fi", "Breakfast">>, budget_level |-> "medium",
     flight_results |-> "", hotel_results |-> "", activity_results |-> "",
     final_plan |-> "", errors |-> <<>>]

\* initial_state of stream_travel_planning
stream_initial_state(thread_id, user_input) ==
    [thread_id |-> thread_id, user_input |-> user_input, messages |-> <<>>,
     travel_details |-> EmptyDict, preferred_airlines |-> <<>>,
     hotel_amenities |-> <<>>, budget_level |-> "medium",
     flight_results |-> "", hotel_results |-> "", activity_results |-> "",
     final_plan |-> "", errors |-> <<>>]

\* The agents are module-level objects of their modules, so the nodes'
\* `if not <agent>` branches (taken only when an import failed) are left out.
gather_info(state, outcome) ==
    IF outcome.raised
    THEN [travel_details |-> [error |-> "provider error"],
          errors |-> <<"Info gathering failed: provider error">>,
          messages |-> <<>>]
    ELSE [travel_details |-> outcome.data,
          messages |-> <<"new_messages_json">>,
          errors |-> <<>>]

get_flight_recommendations(state, raised) ==
    IF "error" \in DOMAIN state.travel_details
    THEN [flight_results |-> "Cannot search flights due to incomplete travel details",
          errors |-> <<"Travel details incomplete">>]
    ELSE IF raised
    THEN [flight_results |-> "Flight search temporarily unavailable: provider error",
          errors |-> <<"Flight search failed: provider error">>]
    ELSE [flight_results |-> "flight recommendations", errors |-> <<>>]

get_hotel_recommendations(state, raised) ==
    IF "error" \in DOMAIN state.travel_details
    THEN [hotel_results |-> "Cannot search hotels due to incomplete travel details",
          errors |-> <<"Travel details incomplete">>]
    ELSE IF raised
    THEN [hotel_results |-> "Hotel search temporarily unavailable: provider error",
          errors |-> <<"Hotel search failed: provider error">>]
    ELSE [hotel_results |-> "hotel recommendations", errors |-> <<>>]

get_activity_recommendations(state, raised) ==
    IF "error" \in DOMAIN state.travel_details
    THEN [activity_results |-> "Cannot search activities due to incomplete travel details",
          errors |-> <<"Travel details incomplete">>]
    ELSE IF raised
    THEN [activity_results |-> "Activity search temporarily unavailable: provider error",
          errors |-> <<"Activity search failed: provider error">>]
    ELSE [activity_results |-> "activity recommendations", errors |-> <<>>]

\* The synthesis node.  The plan is free text: the planner's answer, or on a
\* failure of the planner the basic summary the node assembles itself from the
\* travel details and the three results.
create_final_plan_drops_the_failure(state, raised) ==
    [final_plan |-> "final plan", errors |-> DictGet(state, "errors", <<>>)]

create_final_plan(state, raised) ==
    LET errors == DictGet(state, "errors", <<>>)
    IN  IF raised
        THEN [final_plan |-> "TRAVEL PLAN SUMMARY ... Error creating detailed plan: provider error",
              errors |-> errors \o <<"Final planning failed: provider error">>]
        ELSE [final_plan |-> "final plan", errors |-> errors]

\* The node that asks for more input, once interrupt() has returned `value`
get_next_user_message_resets_the_plan(state, value) ==
    [user_input |-> value, final_plan |-> ""]

get_next_user_message_renews_the_thread(state, value) ==
    [user_input |-> value, thread_id |-> state.thread_id + 1]

get_next_user_message(state, value) == [user_input |-> value]

\* The node function of a fan-out branch
BranchUpdate(node, state, raised) ==
    CASE node = "get_flight_recommendations" -> get_flight_recommendations(state, raised)
      [] node = "get_hotel_recommendations" -> get_hotel_recommendations(state, raised)
      [] node = "get_activity_recommendations" ->
            get_activity_recommendations(state, raised)

(***************************************************************************)
(* agent_graph.py: the channels of TravelState and the superstep barrier   *)
(***************************************************************************)
\* messages: Annotated[List[bytes], lambda x, y: x + y] is the one key with a
\* reducer; every other key of TravelState is a LastValue channel.
HasReducer_for_no_key(key) == FALSE

HasReducer(key) == key = "messages"

\* The writes of one superstep's tasks are applied in a fixed order of the tasks,
\* whatever the order in which they finished: here the input ("__start__"), then
\* the order of add_node.
TaskOrder == <<"__start__", "gather_info", "get_next_user_message",
               "get_flight_recommendations",
               "get_hotel_recommendations", "get_activity_recommendations",
               "create_final_plan">>

\* The values written to `key` by the finished tasks, in task order
RECURSIVE WritesTo(_, _, _)
WritesTo(key, task_writes, i) ==
    IF i > Len(TaskOrder) THEN <<>>
    ELSE LET node == TaskOrder[i]
             here == IF node \in DOMAIN task_writes /\ key \in DOMAIN task_writes[node]
                     THEN <<task_writes[node][key]>> ELSE <<>>
         IN  here \o WritesTo(key, task_writes, i + 1)

\* x + y folded over the written values
RECURSIVE Reduce(_, _)
Reduce(value, written) ==
    IF written = <<>> THEN value ELSE Reduce(value \o Head(written), Tail(written))

\* The barrier at the end of a superstep: every channel takes the writes of the
\* step's tasks.  A LastValue channel that received more than one value raises
\* InvalidUpdateError and the step's writes are not committed.
apply_writes(values, task_writes) ==
    LET written(key) == WritesTo(key, task_writes, 1)
        conflict == \E key \in DOMAIN values :
                        ~HasReducer(key) /\ Len(written(key)) > 1
    IN  IF conflict
        THEN [raised |-> TRUE, values |-> values]
        ELSE [raised |-> FALSE,
              values |-> [key \in DOMAIN values |->
                            IF written(key) = <<>> THEN values[key]
                            ELSE IF HasReducer(key)
                                 THEN Reduce(values[key], written(key))
                                 ELSE written(key)[1]]]

\* The static and conditional edges of build_travel_agent_graph: the nodes of the
\* superstep that follows the one in which `nodes` ran.  {} is END.
NextNodes(nodes, values) ==
    IF nodes = {"gather_info"} THEN route_after_info_gathering(values)
    ELSE IF nodes = {"get_next_user_message"} THEN {"gather_info"}
    ELSE IF nodes = {"create_final_plan"} THEN {}
    ELSE {"create_final_plan"}

\* A thread of the checkpointer at the start of a run on `values`
NewThread(values) ==
    [values |-> values, next |-> {"gather_info"}, task_writes |-> EmptyDict,
     status |-> "running"]

\* The end of a superstep of thread t: apply the finished tasks' writes, then
\* follow the edges.  When the barrier raises, the checkpoint stays where it was.
Barrier(t) ==
    LET applied == apply_writes(t.values, t.task_writes)
        following == NextNodes(t.next, applied.values)
    IN  IF applied.raised
        THEN [t EXCEPT !.status = "raised", !.task_writes = EmptyDict]
        ELSE [values |-> applied.values, next |-> following, task_writes |-> EmptyDict,
              status |-> IF following = {} THEN "ended" ELSE "running"]

\* A superstep with the single task `node`
SingleStep(t, node, update) ==
    Barrier([t EXCEPT !.task_writes = DictSet(EmptyDict, node, update)])

\* astream(..., stream_mode="updates") yields {node_name: update}.  A node's update
\* is the dict it returned; the update of "__interrupt__" is a tuple of Interrupt
\* objects, which has no items to look up.
StreamEvent(node_name, update) ==
    [node_name |-> node_name, update_type |-> "dict", update |-> update]

InterruptEvent ==
    [node_name |-> "__interrupt__", update_type |-> "tuple", update |-> EmptyDict]

NoEvent == [node_name |-> "", update_type |-> "none", update |-> EmptyDict]

(***************************************************************************)
(* main.py: what the endpoints do with the events and results of a run     *)
(***************************************************************************)
NoReply == [endpoint |-> "none"]
NoResponse == [type |-> "none"]

InvalidUpdateError == "At key 'errors': Can receive only one value per step."

\* run_travel_agent_simple after `await travel_agent_graph.ainvoke(...)`: ainvoke
\* returns the state values (also when the run was interrupted) or raises.
run_travel_agent_simple(t) ==
    IF t.status = "raised"
    THEN [final_plan |-> "Error running travel agent: InvalidUpdateError",
          errors |-> <<InvalidUpdateError>>]
    ELSE [final_plan |-> DictGet(t.values, "final_plan", "No plan generated"),
          errors |-> DictGet(t.values, "errors", <<>>)]

\* The body of the `for node_name, update in event.items()` loop of
\* stream_travel_planning and resume_trip: what it does with one event.
stream_update_action(event, request_id, store) ==
    IF event.update_type = "tuple"
    THEN "except"                                 \* 'tuple' object has no attribute 'get'
    ELSE IF "interrupt" \in DOMAIN event.update /\ Truthy(event.update["interrupt"])
    THEN IF request_id \in DOMAIN store /\ "current_state" \in DOMAIN event.update
         THEN "interrupt"
         ELSE "except"                            \* KeyError
    ELSE IF event.node_name = "create_final_plan" /\ "final_plan" \in DOMAIN event.update
    THEN "final_plan"
    ELSE "continue"

\* The next values of the variables a step of a call decides
NextState(store, cs, thr, uuid) ==
    [active_requests |-> store, calls |-> cs, threads |-> thr, next_uuid |-> uuid]

Returned(id, response) ==
    [calls EXCEPT ![id].phase = "returned", ![id].response = response]

\* The call's code after `await run_travel_agent_simple(...)` returned, for thread
\* table thr.  plan_trip answers success=True and pops its entry; the streaming
\* endpoint hands the plan string to the generator, which emits 'complete' and
\* pops; resume_trip's except branch answers status "error" and pops nothing.
ReturnFromSimple_keeps_the_entry(id, thr) ==
    LET c == calls[id]
        r == run_travel_agent_simple(thr[c.thread_id])
    IN  CASE c.endpoint = "plan_trip" ->
               NextState(active_requests,
                         Returned(id, [type |-> "TravelResponse", success |-> TRUE,
                                       final_plan |-> r.final_plan,
                                       error_message |-> IF r.errors # <<>>
                                                         THEN r.errors[1] ELSE None,
                                       errors |-> r.errors]),
                         thr, next_uuid)
          [] c.endpoint = "plan_trip_streaming" ->
               NextState(active_requests,
                         [calls EXCEPT ![id].phase = "returned",
                                       ![id].events = Append(@, "complete"),
                                       ![id].response = [type |-> "complete",
                                                         final_plan |-> r.final_plan]],
                         thr, next_uuid)
          [] c.endpoint = "resume_trip" ->
               NextState(active_requests,
                         Returned(id, [type |-> "resume", status |-> "error",
                                       final_plan |-> r.final_plan]),
                         thr, next_uuid)

ReturnFromSimple(id, thr) ==
    LET c == calls[id]
        r == run_travel_agent_simple(thr[c.thread_id])
    IN  CASE c.endpoint = "plan_trip" ->
               NextState(DictPop(active_requests, id),
                         Returned(id, [type |-> "TravelResponse", success |-> TRUE,
                                       final_plan |-> r.final_plan,
                                       error_message |-> IF r.errors # <<>>
                                                         THEN r.errors[1] ELSE None,
                                       errors |-> r.errors]),
                         thr, next_uuid)
          [] c.endpoint = "plan_trip_streaming" ->
               NextState(DictPop(active_requests, id),
                         [calls EXCEPT ![id].phase = "returned",
                                       ![id].events = Append(@, "complete"),
                                       ![id].response = [type |-> "complete",
                                                         final_plan |-> r.final_plan]],
                         thr, next_uuid)
          [] c.endpoint = "resume_trip" ->
               NextState(active_requests,
                         Returned(id, [type |-> "resume", status |-> "error",
                                       final_plan |-> r.final_plan]),
                         thr, next_uuid)

\* `except Exception` of stream_travel_planning and resume_trip: the fallback
\* run_travel_agent_simple(user_input) starts a new run on a fresh thread.
Fallback(id, thr) ==
    LET c == calls[id]
        thread_id == next_uuid
    IN  NextState(active_requests,
                  [calls EXCEPT ![id].phase = "ainvoke", ![id].thread_id = thread_id],
                  DictSet(thr, thread_id,
                          NewThread(simple_initial_state(thread_id, c.request.user_input))),
                  next_uuid + 1)

\* The loop's `if update.get("interrupt")` branch
ReturnInterrupt(id, event, thr) ==
    LET c == calls[id]
        info == [x \in DOMAIN active_requests[id] \cup
                       {"status", "interrupted_state", "interrupt_question"} |->
                 CASE x = "status" -> "waiting_for_user"
                   [] x = "interrupted_state" -> event.update["current_state"]
                   [] x = "interrupt_question" ->
                        DictGet(event.update, "question", "Need more details")
                   [] OTHER -> active_requests[id][x]]
        store == [active_requests EXCEPT ![id] = info]
    IN  IF c.endpoint = "resume_trip"
        THEN NextState(store,
                       Returned(id, [type |-> "resume", status |-> "waiting_for_user"]),
                       thr, next_uuid)
        ELSE NextState(DictPop(store, id),
                       [calls EXCEPT ![id].phase = "returned",
                                     ![id].events = Append(@, "interrupt"),
                                     ![id].response = [type |-> "interrupt"]],
                       thr, next_uuid)

\* The loop's `if node_name == "create_final_plan" and "final_plan" in update` branch
ReturnFinalPlan(id, event, thr) ==
    LET c == calls[id]
        final_plan == event.update["final_plan"]
    IN  IF c.endpoint = "resume_trip"
        THEN NextState(DictPop(active_requests, id),
                       Returned(id, [type |-> "resume", status |-> "complete",
                                     final_plan |-> final_plan]),
                       thr, next_uuid)
        ELSE NextState(DictPop(active_requests, id),
                       [calls EXCEPT ![id].phase = "returned",
                                     ![id].events = Append(@, "complete"),
                                     ![id].response = [type |-> "complete",
                                                       final_plan |-> final_plan]],
                       thr, next_uuid)

\* The stream ended without an interrupt or a final plan
ReturnStreamExhausted(id, thr) ==
    IF calls[id].endpoint = "resume_trip"
    THEN NextState(active_requests,
                   Returned(id, [type |-> "resume", status |-> "incomplete"]),
                   thr, next_uuid)
    ELSE NextState(DictPop(active_requests, id),
                   [calls EXCEPT ![id].phase = "returned",
                                 ![id].events = Append(@, "complete"),
                                 ![id].response =
                                     [type |-> "complete",
                                      final_plan |-> "No travel plan could be generated."]],
                   thr, next_uuid)

\* What call `id` does when the engine has taken thread c.thread_id to t2 and
\* emitted `event`.  Under ainvoke the caller sees nothing until the run is over;
\* under astream it sees every event, and an exception of the run.
AfterStep(id, t2, event) ==
    LET c == calls[id]
        thr == [threads EXCEPT ![c.thread_id] = t2]
        action == stream_update_action(event, id, active_requests)
    IN  IF c.phase = "ainvoke"
        THEN IF t2.status = "running"
             THEN NextState(active_requests, calls, thr, next_uuid)
             ELSE ReturnFromSimple(id, thr)
        ELSE IF t2.status = "raised" THEN Fallback(id, thr)
        ELSE IF event.update_type = "none"
             THEN NextState(active_requests, calls, thr, next_uuid)
        ELSE IF action = "except" THEN Fallback(id, thr)
        ELSE IF action = "interrupt" THEN ReturnInterrupt(id, event, thr)
        ELSE IF action = "final_plan" THEN ReturnFinalPlan(id, event, thr)
        ELSE IF t2.status \in {"interrupted", "ended"}
             THEN ReturnStreamExhausted(id, thr)
        ELSE NextState(active_requests, calls, thr, next_uuid)

(***************************************************************************)
(* The state machine                                                       *)
(***************************************************************************)
\* The router harness and the node harness are idle in the specification of the
\* service.
NotRouted == {"<not called>"}
NoRouteInput == [travel_details |-> EmptyDict]
NotRun == [node |-> "<not called>"]
NoNodeState == [travel_details |-> EmptyDict]

InitService ==
    /\ active_requests = EmptyDict
    /\ calls = EmptyDict
    /\ threads = EmptyDict
    /\ next_uuid = 1
    /\ reply = NoReply

Init ==
    /\ InitService
    /\ route_input = NoRouteInput
    /\ route_output = NotRouted
    /\ node_state = NoNodeState
    /\ node_result = NotRun
    /\ route_calls = 0

InFlight(id) == id \in DOMAIN calls /\ calls[id].phase \in {"astream", "ainvoke"}

CallThread(id) == threads[calls[id].thread_id]

\* Start calls share nothing: each has its own request id, its own store entry
\* and its own threads, so steps of different start calls commute.  The model
\* runs them one after the other; /resume-trip and /cancel-request may come at
\* any point of a call.
MayStart ==
    /\ Cardinality(DOMAIN calls) < MaxCalls
    /\ \A id \in DOMAIN calls : ~InFlight(id)

\* The step's next state `ns` is worked out once and then assigned
TakeWithReply(ns, r) ==
    /\ \E n \in {ns} :
          /\ active_requests' = n.active_requests
          /\ calls' = n.calls
          /\ threads' = n.threads
          /\ next_uuid' = n.next_uuid
    /\ reply' = r
    /\ UNCHANGED <<route_input, route_output,
                   node_state, node_result, route_calls>>

Take(ns) == TakeWithReply(ns, NoReply)

\* POST /plan-trip up to `await travel_agent_graph.ainvoke(...)`: a fresh request
\* id, the store entry, and run_travel_agent_simple's fresh thread and state.
PlanTrip(request) ==
    /\ MayStart
    /\ LET request_id == next_uuid
           thread_id == next_uuid + 1
       IN  Take(NextState(
               DictSet(active_requests, request_id,
                       [status |-> "processing", user_input |-> request.user_input]),
               DictSet(calls, request_id,
                       [endpoint |-> "plan_trip", request |-> request, phase |-> "ainvoke",
                        thread_id |-> thread_id, events |-> <<>>,
                        response |-> NoResponse]),
               DictSet(threads, thread_id,
                       NewThread(simple_initial_state(thread_id, request.user_input))),
               next_uuid + 2))

\* POST /plan-trip-streaming up to the first event of astream: the 'start' event,
\* the store entry, and stream_travel_planning's fresh thread and state.
PlanTripStreaming_without_start_event(request) ==
    /\ MayStart
    /\ LET request_id == next_uuid
           thread_id == next_uuid + 1
       IN  Take(NextState(
               DictSet(active_requests, request_id,
                       [status |-> "processing", user_input |-> request.user_input]),
               DictSet(calls, request_id,
                       [endpoint |-> "plan_trip_streaming", request |-> request,
                        phase |-> "astream", thread_id |-> thread_id,
                        events |-> <<>>, response |-> NoResponse]),
               DictSet(threads, thread_id,
                       NewThread(stream_initial_state(thread_id, request.user_input))),
               next_uuid + 2))

PlanTripStreaming(request) ==
    /\ MayStart
    /\ LET request_id == next_uuid
           thread_id == next_uuid + 1
       IN  Take(NextState(
               DictSet(active_requests, request_id,
                       [status |-> "processing", user_input |-> request.user_input]),
               DictSet(calls, request_id,
                       [endpoint |-> "plan_trip_streaming", request |-> request,
                        phase |-> "astream", thread_id |-> thread_id,
                        events |-> <<"start">>, response |-> NoResponse]),
               DictSet(threads, thread_id,
                       NewThread(stream_initial_state(thread_id, request.user_input))),
               next_uuid + 2))

\* The node gather_info runs, its update is applied and the router picks the
\* next superstep.
GatherInfo(id) ==
    /\ InFlight(id)
    /\ CallThread(id).status = "running"
    /\ CallThread(id).next = {"gather_info"}
    /\ \E outcome \in ExtractionOutcomes(CallThread(id).values.user_input) :
          LET update == gather_info(CallThread(id).values, outcome)
          IN  Take(AfterStep(id, SingleStep(CallThread(id), "gather_info", update),
                             StreamEvent("gather_info", update)))

\* The node get_next_user_message runs: interrupt() finds no resume value (no
\* caller ever passes one to the graph) and ends the run; the checkpoint keeps
\* the node as the thread's next step.
GetNextUserMessage_waits_for_the_input(id) ==
    /\ InFlight(id)
    /\ CallThread(id).status = "running"
    /\ CallThread(id).next = {"get_next_user_message"}
    /\ Take(NextState(active_requests, calls, threads, next_uuid))

GetNextUserMessage(id) ==
    /\ InFlight(id)
    /\ CallThread(id).status = "running"
    /\ CallThread(id).next = {"get_next_user_message"}
    /\ Take(AfterStep(id, [CallThread(id) EXCEPT !.status = "interrupted"],
                      InterruptEvent))

\* One branch of the fan-out finishes; its update waits for the barrier.
RunBranch(id, node) ==
    /\ InFlight(id)
    /\ CallThread(id).status = "running"
    /\ CallThread(id).next = FanOutNodes
    /\ node \notin DOMAIN CallThread(id).task_writes
    /\ \E raised \in BOOLEAN :
          LET update == BranchUpdate(node, CallThread(id).values, raised)
          IN  Take(AfterStep(id,
                             [CallThread(id) EXCEPT
                                 !.task_writes = DictSet(@, node, update)],
                             StreamEvent(node, update)))

GetFlightRecommendations(id) == RunBranch(id, "get_flight_recommendations")
GetHotelRecommendations(id) == RunBranch(id, "get_hotel_recommendations")
GetActivityRecommendations(id) == RunBranch(id, "get_activity_recommendations")

\* The three branches have finished: the barrier of the fan-out superstep.
FanOutBarrier(id) ==
    /\ InFlight(id)
    /\ CallThread(id).status = "running"
    /\ CallThread(id).next = FanOutNodes
    /\ DOMAIN CallThread(id).task_writes = FanOutNodes
    /\ Take(AfterStep(id, Barrier(CallThread(id)), NoEvent))

\* POST /resume-trip, `if request_id not in active_requests`: HTTP 404
ResumeNotFound_registers_the_id(request_id, user_input) ==
    /\ active_requests' = DictSet(active_requests, request_id,
                                  [status |-> "processing", user_input |-> user_input])
    /\ reply' = [endpoint |-> "resume_trip", request_id |-> request_id,
                 user_input |-> user_input, status_code |-> 200,
                 detail |-> "accepted"]
    /\ UNCHANGED <<calls, threads, next_uuid, route_input, route_output,
                   node_state, node_result, route_calls>>

ResumeNotFound(request_id, user_input) ==
    /\ reply' = [endpoint |-> "resume_trip", request_id |-> request_id,
                 user_input |-> user_input, status_code |-> 404,
                 detail |-> "Request not found"]
    /\ UNCHANGED <<active_requests, calls, threads, next_uuid,
                   route_input, route_output,
                   node_state, node_result, route_calls>>

\* POST /resume-trip, `if not state`: HTTP 400
ResumeNoState_falls_through(request_id, user_input) ==
    /\ reply' = [endpoint |-> "resume_trip", request_id |-> request_id,
                 user_input |-> user_input, status_code |-> 200,
                 detail |-> "incomplete"]
    /\ UNCHANGED <<active_requests, calls, threads, next_uuid,
                   route_input, route_output,
                   node_state, node_result, route_calls>>

ResumeNoState_runs_on_the_thread(request_id, user_input) ==
    /\ request_id \in DOMAIN calls
    /\ threads' = [threads EXCEPT ![calls[request_id].thread_id].values.user_input =
                                     user_input]
    /\ reply' = [endpoint |-> "resume_trip", request_id |-> request_id,
                 user_input |-> user_input, status_code |-> 200,
                 detail |-> "accepted"]
    /\ UNCHANGED <<active_requests, calls, next_uuid, route_input, route_output,
                   node_state, node_result, route_calls>>

ResumeNoState(request_id, user_input) ==
    /\ reply' = [endpoint |-> "resume_trip", request_id |-> request_id,
                 user_input |-> user_input, status_code |-> 400,
                 detail |-> "No interrupted state available"]
    /\ UNCHANGED <<active_requests, calls, threads, next_uuid,
                   route_input, route_output,
                   node_state, node_result, route_calls>>

\* POST /resume-trip from `state["user_input"] = request.user_input` to the first
\* event of astream(state, config): the stored dict takes the new input, and the
\* engine, given a plain input on an existing thread, writes it to the channels
\* and starts a new run at the entry node.
ResumeRun(request_id, user_input) ==
    LET state == [active_requests[request_id]["interrupted_state"]
                    EXCEPT !.user_input = user_input]
        thread_id == state.thread_id
        started == apply_writes(threads[thread_id].values,
                                DictSet(EmptyDict, "__start__", state))
    IN  TakeWithReply(
            NextState([active_requests EXCEPT ![request_id] =
                          DictSet(@, "interrupted_state", state)],
                      DictSet(calls, request_id,
                              [endpoint |-> "resume_trip",
                               request |-> [user_input |-> user_input],
                               phase |-> "astream", thread_id |-> thread_id,
                               events |-> <<>>, response |-> NoResponse]),
                      [threads EXCEPT ![thread_id] = NewThread(started.values)],
                      next_uuid),
            [endpoint |-> "resume_trip", request_id |-> request_id,
             user_input |-> user_input, status_code |-> 200, detail |-> "accepted"])

\* POST /resume-trip up to its first await.  interrupted_state is a key that only
\* ever holds a state dict, so `not state` is the key's absence.
ResumeTrip(request_id, user_input) ==
    IF request_id \notin DOMAIN active_requests
    THEN ResumeNotFound(request_id, user_input)
    ELSE IF "interrupted_state" \notin DOMAIN active_requests[request_id]
    THEN ResumeNoState(request_id, user_input)
    ELSE ResumeRun(request_id, user_input)

\* POST /cancel-request/{request_id}
CancelRequest(request_id) ==
    IF request_id \notin DOMAIN active_requests
    THEN /\ reply' = [endpoint |-> "cancel_request", request_id |-> request_id,
                      status_code |-> 404, detail |-> "Request not found"]
         /\ UNCHANGED <<active_requests, calls, threads, next_uuid,
                        route_input, route_output,
                   node_state, node_result, route_calls>>
    ELSE /\ active_requests' = DictPop(active_requests, request_id)
         /\ reply' = [endpoint |-> "cancel_request", request_id |-> request_id,
                      status_code |-> 200, detail |-> "Request cancelled successfully"]
         /\ UNCHANGED <<calls, threads, next_uuid, route_input, route_output,
                   node_state, node_result, route_calls>>

\* The ids a caller may send: those of the start calls so far, and one that was
\* never issued.
UnknownId == 0
KnownIds == DOMAIN calls \cup {UnknownId}

Next ==
    \/ \E request \in Requests : PlanTrip(request)
    \/ \E request \in Requests : PlanTripStreaming(request)
    \/ \E id \in DOMAIN calls : GatherInfo(id)
    \/ \E id \in DOMAIN calls : GetNextUserMessage(id)
    \/ \E id \in DOMAIN calls : GetFlightRecommendations(id)
    \/ \E id \in DOMAIN calls : GetHotelRecommendations(id)
    \/ \E id \in DOMAIN calls : GetActivityRecommendations(id)
    \/ \E id \in DOMAIN calls : FanOutBarrier(id)
    \/ \E request_id \in KnownIds, user_input \in UserInputs :
          ResumeTrip(request_id, user_input)
    \/ \E request_id \in KnownIds : CancelRequest(request_id)

Spec == Init /\ [][Next]_vars

\* The steps of the workflow runs.  Every provider call returns and the event
\* loop keeps scheduling the run's tasks, so a step that can be taken is taken.
WorkflowStep ==
    \E id \in DOMAIN calls :
        \/ GatherInfo(id)
        \/ GetNextUserMessage(id)
        \/ GetFlightRecommendations(id)
        \/ GetHotelRecommendations(id)
        \/ GetActivityRecommendations(id)
        \/ FanOutBarrier(id)

SpecLive == Spec /\ WF_vars(WorkflowStep)

(***************************************************************************)
(* The router on its own: every dict the keys it reads can form            *)
(***************************************************************************)
RouterKeys == {"error", "all_details_given", "origin", "destination",
               "date_leaving", "date_returning"}

RouterValues(key) ==
    IF key = "error" THEN {"provider error"}
    ELSE IF key = "all_details_given" THEN {None, PyFalse, PyTrue}
    ELSE {None, "value"}

RouterDicts ==
    UNION { { d \in [keys -> {None, PyFalse, PyTrue, "provider error", "value"}] :
                \A k \in keys : d[k] \in RouterValues(k) } :
            keys \in SUBSET RouterKeys }

InitRoute ==
    /\ InitService
    /\ route_input \in {[travel_details |-> d] : d \in RouterDicts}
    /\ route_output = NotRouted
    /\ node_state = NoNodeState
    /\ node_result = NotRun
    /\ route_calls = 0

\* The router is called on the state; the next call gets the state as this
\* call left it.
Route ==
    /\ route_calls < MaxRouteCalls
    /\ route_calls' = route_calls + 1
    /\ route_output' = RouterCall(route_input).decision
    /\ route_input' = RouterCall(route_input).state
    /\ UNCHANGED <<active_requests, calls, threads, next_uuid, reply,
                   node_state, node_result>>

NextRoute == Route

SpecRoute == InitRoute /\ [][NextRoute]_vars

(***************************************************************************)
(* The node functions on their own: one node is handed one TravelState and *)
(* its update is applied to the channels as the superstep of that one task *)
(***************************************************************************)
\* travel_details as the workflow can hold it: not yet extracted, a failed
\* extraction, a complete one, an incomplete one
NodeTravelDetails ==
    {EmptyDict, [error |-> "provider error"],
     TravelDetails("NYC", "Paris", "09-15", "09-22", PyTrue),
     TravelDetails(None, "Paris", None, None, PyFalse)}

\* errors as the workflow holds it with that travel_details: the entry of the
\* failed extraction, or nothing
NodeErrors(travel_details) ==
    IF "error" \in DOMAIN travel_details
    THEN <<"Info gathering failed: provider error">>
    ELSE <<>>

\* messages as the workflow can hold it: no history yet, or the messages of an
\* earlier extraction
NodeMessages == {<<>>, <<"messages_json">>}

NodeStates ==
    { [simple_initial_state(1, user_input) EXCEPT
          !.travel_details = travel_details,
          !.messages = messages,
          !.errors = NodeErrors(travel_details),
          !.flight_results = IF searched THEN "flight recommendations" ELSE "",
          !.hotel_results = IF searched THEN "hotel recommendations" ELSE "",
          !.activity_results = IF searched THEN "activity recommendations" ELSE ""] :
      user_input \in UserInputs, travel_details \in NodeTravelDetails,
      messages \in NodeMessages, searched \in BOOLEAN }

InitNode ==
    /\ InitService
    /\ route_input = NoRouteInput
    /\ route_output = NotRouted
    /\ node_state \in NodeStates
    /\ node_result = NotRun
    /\ route_calls = 0

\* Node `node` returned `update`; `failed` tells whether its provider raised.
NodeReturns(node, failed, update) ==
    /\ node_result = NotRun
    /\ node_result' =
          [node |-> node, failed |-> failed, update |-> update,
           values |-> apply_writes(node_state, DictSet(EmptyDict, node, update)).values]
    /\ UNCHANGED <<active_requests, calls, threads, next_uuid, reply,
                   route_input, route_output, node_state, route_calls>>

NodeGatherInfo ==
    \E outcome \in ExtractionOutcomes(node_state.user_input) :
        NodeReturns("gather_info", outcome.raised, gather_info(node_state, outcome))

NodeGetNextUserMessage ==
    \E value \in UserInputs :
        NodeReturns("get_next_user_message", FALSE,
                    get_next_user_message(node_state, value))

\* A branch calls its provider unless travel_details carries an error
NodeBranch(node) ==
    \E raised \in BOOLEAN :
        NodeReturns(node, raised /\ "error" \notin DOMAIN node_state.travel_details,
                    BranchUpdate(node, node_state, raised))

NodeGetFlightRecommendations == NodeBranch("get_flight_recommendations")
NodeGetHotelRecommendations == NodeBranch("get_hotel_recommendations")
NodeGetActivityRecommendations == NodeBranch("get_activity_recommendations")

NodeCreateFinalPlan ==
    \E raised \in BOOLEAN :
        NodeReturns("create_final_plan", raised, create_final_plan(node_state, raised))

NextNode ==
    \/ NodeGatherInfo
    \/ NodeGetNextUserMessage
    \/ NodeGetFlightRecommendations
    \/ NodeGetHotelRecommendations
    \/ NodeGetActivityRecommendations
    \/ NodeCreateFinalPlan

SpecNode == InitNode /\ [][NextNode]_vars

(***************************************************************************)
(* Vocabulary of the properties                                            *)
(***************************************************************************)
\* A required field has no value: the key is absent or its value is None
Unfilled(travel_details, field) ==
    field \notin DOMAIN travel_details \/ travel_details[field] = None

SomeRequiredFieldUnfilled(travel_details) ==
    \E i \in 1..Len(required_fields) : Unfilled(travel_details, required_fields[i])

FlagIsTrue(travel_details) ==
    /\ "all_details_given" \in DOMAIN travel_details
    /\ travel_details["all_details_given"] = PyTrue

\* Thread tid has been routed: its last extraction is done and the router's
\* decision is the thread's next superstep.
Routed(tid) == threads[tid].next # {"gather_info"}

\* The start call `id` is over and its workflow ended suspended in
\* get_next_user_message: the conversation is waiting for the caller's input.
EndedSuspended(id) ==
    /\ id \in DOMAIN calls
    /\ calls[id].phase = "returned"
    /\ CallThread(id).status = "interrupted"
    /\ CallThread(id).next = {"get_next_user_message"}

\* The step just taken was a /resume-trip request for a conversation that a start
\* call had left suspended.
ResumedAfterSuspension ==
    /\ reply.endpoint = "resume_trip"
    /\ EndedSuspended(reply.request_id)

\* The branch whose update is `update` failed: it reported an error
BranchFailed(update) == update.errors # <<>>

\* Thread tid takes the barrier of its fan-out superstep in this step
FanOutBarrierStep(tid) ==
    /\ tid \in DOMAIN threads
    /\ threads[tid].status = "running"
    /\ DOMAIN threads[tid].task_writes = FanOutNodes
    /\ threads'[tid] # threads[tid]

\* The outcome a caller reads off what a call answered
ResponseOutcome(response) ==
    CASE response.type = "TravelResponse" ->
            IF response.success THEN "completed" ELSE "failed"
      [] response.type = "complete" -> "completed"
      [] response.type = "interrupt" -> "awaiting_input"
      [] response.type = "error" -> "failed"
      [] response.type = "resume" ->
            (CASE response.status = "complete" -> "completed"
               [] response.status = "error" -> "failed"
               [] response.status = "waiting_for_user" -> "awaiting_input"
               [] OTHER -> response.status)
      [] OTHER -> "none"

\* An HTTP error answer is a failed call; any other answer names its status
ReplyOutcome(r) == IF r.status_code \in {400, 404} THEN "failed" ELSE r.detail

Outcomes == {"completed", "failed", "awaiting_input"}

\* The state key a node produces
OutputField(node) ==
    CASE node = "gather_info" -> "travel_details"
      [] node = "get_next_user_message" -> "user_input"
      [] node = "get_flight_recommendations" -> "flight_results"
      [] node = "get_hotel_recommendations" -> "hotel_results"
      [] node = "get_activity_recommendations" -> "activity_results"
      [] node = "create_final_plan" -> "final_plan"

\* What a node's output holds when its provider answered
ProviderAnswers == {"flight recommendations", "hotel recommendations",
                    "activity recommendations", "final plan"}

\* The update's output is a degraded value: for the extraction a dict that
\* carries the error, for the others a text that is not a provider's answer
Degraded(node, update) ==
    IF node = "gather_info"
    THEN "error" \in DOMAIN update.travel_details
    ELSE update[OutputField(node)] \notin ProviderAnswers \cup {""}

\* The error entries that describe a provider's failure
FailureEntries == {"Info gathering failed: provider error",
                   "Flight search failed: provider error",
                   "Hotel search failed: provider error",
                   "Activity search failed: provider error",
                   "Final planning failed: provider error"}

\* Every entry of sequence `before` is an entry of sequence `after`
Keeps(before, after) ==
    \A i \in 1..Len(before) : \E j \in 1..Len(after) : after[j] = before[i]

\* The router's condition for asking for more input, as a predicate of the dict
NeedsInput(travel_details) ==
    \/ "error" \in DOMAIN travel_details
    \/ /\ "all_details_given" \in DOMAIN travel_details
       /\ ~Truthy(travel_details["all_details_given"])
    \/ \E i \in 1..Len(required_fields) : required_fields[i] \notin DOMAIN travel_details

\* Sequence `before` is a prefix of sequence `after`
IsPrefix(before, after) ==
    /\ Len(before) <= Len(after)
    /\ \A i \in 1..Len(before) : after[i] = before[i]

\* The fields of TravelState that are fixed when the conversation starts
FixedFields == {"thread_id", "preferred_airlines", "hotel_amenities", "budget_level"}

\* The events that end a streaming response
TerminalEvents == {"interrupt", "complete", "error"}

\* The threads call `id` ran on: identifiers are handed out in increasing order,
\* so they are the threads opened after the call's own id and before the next
\* call's.
ThreadsOf(id) ==
    {tid \in DOMAIN threads :
        /\ tid > id
        /\ \A other \in DOMAIN calls : other > id => tid < other}

\* Call `id` is over and told its caller that the plan is complete
ReportedCompleted(id) ==
    /\ calls[id].phase = "returned"
    /\ ResponseOutcome(calls[id].response) = "completed"

\* Call `id` was cancelled and has not returned yet: a call's store entry is
\* there from its start until it returns, unless /cancel-request removed it.
CancelledInFlight(id) == InFlight(id) /\ id \notin DOMAIN active_requests

\* Call `id` is a start call (/plan-trip or /plan-trip-streaming)
IsStartCall(id) == calls[id].endpoint \in {"plan_trip", "plan_trip_streaming"}

(***************************************************************************)
(* Properties                                                              *)
(***************************************************************************)
\* C1: an extraction result whose all_details_given is true while a required
\* field (origin, destination, date_leaving, date_returning) has no value is
\* routed to get_next_user_message, never to the fan-out.
C1_ContradictoryExtractionRoutedToInput ==
    \A tid \in DOMAIN threads :
        LET travel_details == threads[tid].values.travel_details
        IN  ( /\ Routed(tid)
              /\ FlagIsTrue(travel_details)
              /\ SomeRequiredFieldUnfilled(travel_details) )
            => threads[tid].next = {"get_next_user_message"}

\* C2: when travel_details carries no all_details_given flag, the router answers
\* get_next_user_message, also when the four required fields are present.
C2_MissingFlagRoutedToInput ==
    ( /\ route_output # NotRouted
      /\ "all_details_given" \notin DOMAIN route_input.travel_details )
    => route_output = {"get_next_user_message"}

\* C3: when the last call of a conversation ended in a suspension, the store
\* still holds the entry of its request id together with the interrupted state,
\* so that a resume with that id is accepted.
C3_SuspendedCallKeepsStoreEntry ==
    \A id \in DOMAIN calls :
        EndedSuspended(id)
        => /\ id \in DOMAIN active_requests
           /\ "interrupted_state" \in DOMAIN active_requests[id]

\* C4: after a start call that suspended in get_next_user_message, a resume with
\* input X yields a state whose user_input is X and re-enters the workflow at
\* get_next_user_message, not at the entry step.
C4_ResumeReentersSuspendedStep ==
    ResumedAfterSuspension
    => /\ reply.status_code = 200
       /\ CallThread(reply.request_id).values.user_input = reply.user_input
       /\ CallThread(reply.request_id).next = {"get_next_user_message"}

\* C5: when a start call suspended on an incomplete extraction and the caller
\* resumes with an input that completes the details, the resume call is never
\* over with anything but a Completed result carrying a non-empty final plan.
C5_ResumeWithCompleteDetailsCompletes ==
    ( /\ ResumedAfterSuspension
      /\ "error" \notin DOMAIN CallThread(reply.request_id).values.travel_details
      /\ reply.user_input = "all_details" )
    => /\ reply.status_code = 200
       /\ ( calls[reply.request_id].phase = "returned"
            => /\ calls[reply.request_id].response.type = "resume"
               /\ calls[reply.request_id].response.status = "complete"
               /\ calls[reply.request_id].response.final_plan # "" )

\* C6: a resume whose id is not in the store is answered 404 "Request not found";
\* the step changes neither the store nor any call or conversation state and
\* starts no conversation.
C6_ResumeUnknownIdNotFound ==
    [][ ( /\ reply'.endpoint = "resume_trip"
          /\ reply'.request_id \notin DOMAIN active_requests )
        => /\ reply'.status_code = 404
           /\ UNCHANGED <<active_requests, calls, threads, next_uuid>> ]_vars

\* C6 witness: a resume was answered 404 for the id of a call that was cancelled
\* while in flight.
C6_Witness ==
    /\ reply.endpoint = "resume_trip"
    /\ reply.status_code = 404
    /\ InFlight(reply.request_id)
    /\ reply.request_id \notin DOMAIN active_requests

\* C7: when exactly one of the three branches failed, the state after the
\* barrier holds the two successful results and the failed branch's placeholder,
\* and errors has exactly one entry.
C7_OneFailedBranchIsolated ==
    [][ \A tid \in DOMAIN threads :
          LET writes == threads[tid].task_writes
              after == threads'[tid].values
          IN  ( /\ FanOutBarrierStep(tid)
                /\ Cardinality({n \in FanOutNodes : BranchFailed(writes[n])}) = 1 )
              => /\ after.flight_results =
                       writes["get_flight_recommendations"].flight_results
                 /\ after.hotel_results =
                       writes["get_hotel_recommendations"].hotel_results
                 /\ after.activity_results =
                       writes["get_activity_recommendations"].activity_results
                 /\ Len(after.errors) = 1 ]_vars

\* C8: whatever the order in which the branches finished, the state after the
\* barrier holds for each of flight_results, hotel_results and activity_results
\* the value its own branch produced.
C8_BarrierKeepsEveryBranchResult ==
    [][ \A tid \in DOMAIN threads :
          FanOutBarrierStep(tid)
          => /\ threads'[tid].values.flight_results =
                   threads[tid].task_writes["get_flight_recommendations"].flight_results
             /\ threads'[tid].values.hotel_results =
                   threads[tid].task_writes["get_hotel_recommendations"].hotel_results
             /\ threads'[tid].values.activity_results =
                   threads[tid].task_writes["get_activity_recommendations"]
                       .activity_results ]_vars

\* C9: a run that entered the fan-out is not over before create_final_plan has
\* run and set a final plan, whichever branches failed.
C9_FanOutReachesFinalPlan ==
    \A tid \in DOMAIN threads :
        ( /\ threads[tid].next = FanOutNodes
          /\ threads[tid].status # "running" )
        => threads[tid].values.final_plan # ""

\* C10: every start or resume call that is over ended completed, failed or
\* awaiting input, and with nothing else.
C10_CallsEndInOneOfThreeOutcomes ==
    /\ \A id \in DOMAIN calls :
          calls[id].phase = "returned" => ResponseOutcome(calls[id].response) \in Outcomes
    /\ ( reply.endpoint = "resume_trip" /\ reply.detail # "accepted" )
       => ReplyOutcome(reply) \in Outcomes

\* C10 witness: a start call is over and its caller's resume has been answered.
C10_Witness ==
    /\ reply.endpoint = "resume_trip"
    /\ reply.request_id \in DOMAIN calls
    /\ calls[reply.request_id].phase = "returned"
    /\ ResponseOutcome(calls[reply.request_id].response) = "completed"
    /\ ReplyOutcome(reply) = "failed"

\* C11: a call that reports a completed result carries a non-empty final plan,
\* and its run went through create_final_plan to the end; a run that suspended
\* or never reached synthesis is not reported as completed.
C11_CompletedCarriesFinalPlan ==
    \A id \in DOMAIN calls :
        ReportedCompleted(id)
        => /\ calls[id].response.final_plan # ""
           /\ CallThread(id).status = "ended"

\* C12: every result a call delivers to its caller carries both the final plan
\* and the errors of the run.
C12_ResultsCarryPlanAndErrors ==
    \A id \in DOMAIN calls :
        calls[id].phase = "returned"
        => {"final_plan", "errors"} \subseteq DOMAIN calls[id].response

\* C13: when the provider of a node failed, the node still returned an update:
\* its own output field holds a degraded value and its errors end with an entry
\* describing the failure, which the state after the step holds.
C13_ProviderFailureStaysInStep ==
    ( node_result # NotRun /\ node_result.failed )
    => LET node == node_result.node
           update == node_result.update
       IN  /\ OutputField(node) \in DOMAIN update
           /\ Degraded(node, update)
           /\ "errors" \in DOMAIN update
           /\ update.errors # <<>>
           /\ update.errors[Len(update.errors)] \in FailureEntries
           /\ Keeps(update.errors, node_result.values.errors)

\* C13 witness: the synthesis provider failed in a state that already held an
\* error, and create_final_plan returned.
C13_Witness ==
    /\ node_result # NotRun
    /\ node_result.node = "create_final_plan"
    /\ node_result.failed
    /\ node_state.errors # <<>>

\* C14: when a workflow run of a call raised, the call goes on with no other
\* run in its place, and once it is over it has told its caller of a failure.
C14_RaisedRunSurfacedAsFailure ==
    \A id \in DOMAIN calls :
        \A tid \in ThreadsOf(id) :
            threads[tid].status = "raised"
            => /\ calls[id].thread_id = tid
               /\ calls[id].phase = "returned"
                  => ResponseOutcome(calls[id].response) = "failed"

\* C15: a call that was cancelled while in flight does not return a completed
\* plan to its caller, and the removed store entry does not come back.
C15_CancelledCallResultDiscarded ==
    [][ \A id \in DOMAIN calls :
          CancelledInFlight(id)
          => /\ id \notin DOMAIN active_requests'
             /\ ~ReportedCompleted(id)' ]_vars

\* C16: while a start call's workflow runs, the preferences in its state are
\* those of the request.
C16_StateHoldsCallerPreferences ==
    \A id \in DOMAIN calls :
        ( InFlight(id) /\ IsStartCall(id) )
        => /\ CallThread(id).values.preferred_airlines =
                 calls[id].request.preferred_airlines
           /\ CallThread(id).values.hotel_amenities = calls[id].request.hotel_amenities
           /\ CallThread(id).values.budget_level = calls[id].request.budget_level

\* C17: once a run of a call was suspended in get_next_user_message, no step
\* runs for that call any more: while the call has not returned, its threads
\* stay as they are.
C17_NoStepAfterSuspension ==
    [][ \A id \in DOMAIN calls :
          ( /\ InFlight(id)
            /\ \E tid \in ThreadsOf(id) : threads[tid].status = "interrupted" )
          => UNCHANGED threads ]_vars

\* C18: errors is append-only: every entry that errors held before a step is
\* an entry of errors after the step.
C18_ErrorsAppendOnly ==
    node_result # NotRun => Keeps(node_state.errors, node_result.values.errors)

C20_RouterDecisionIsOneOfTwo ==
    route_output # NotRouted
    => /\ route_output \in {{"get_next_user_message"}, FanOutNodes}
       /\ route_output = {"get_next_user_message"}
          <=> NeedsInput(route_input.travel_details)

\* C20 witness: a dict with the four required keys, a true flag and an error key
\* was routed to get_next_user_message.
C20_Witness ==
    /\ route_output = {"get_next_user_message"}
    /\ "error" \in DOMAIN route_input.travel_details
    /\ FlagIsTrue(route_input.travel_details)
    /\ \A i \in 1..Len(required_fields) :
          required_fields[i] \in DOMAIN route_input.travel_details

C22_CallsReturn ==
    (\E id \in DOMAIN calls : InFlight(id)) ~> (\A id \in DOMAIN calls : ~InFlight(id))

\* C22 witness: a streaming call has returned after two of its runs went
\* through get_next_user_message.
C22_Witness ==
    \E id \in DOMAIN calls :
        /\ calls[id].phase = "returned"
        /\ Cardinality({tid \in ThreadsOf(id) :
                           threads[tid].status = "interrupted"}) = 2

\* C23: the events of a streaming start call begin with one 'start'; while the
\* call runs no terminal event has been emitted, and once it is over exactly
\* one terminal event has been emitted, as the last event.
C23_StreamStartsOnceEndsOnce ==
    \A id \in DOMAIN calls :
        calls[id].endpoint = "plan_trip_streaming"
        => LET events == calls[id].events
               starts == {i \in 1..Len(events) : events[i] = "start"}
               terminals == {i \in 1..Len(events) : events[i] \in TerminalEvents}
           IN  /\ starts = {1}
               /\ InFlight(id) => terminals = {}
               /\ calls[id].phase = "returned" => terminals = {Len(events)}

\* C23 witness: a streaming call is over after a fallback run.
C23_Witness ==
    \E id \in DOMAIN calls :
        /\ calls[id].endpoint = "plan_trip_streaming"
        /\ calls[id].phase = "returned"
        /\ calls[id].events = <<"start", "complete">>
        /\ Cardinality(ThreadsOf(id)) = 2

C25_BranchErrorsAllRetained ==
    [][ \A tid \in DOMAIN threads :
          FanOutBarrierStep(tid)
          => /\ threads'[tid].status # "raised"
             /\ Keeps(threads[tid].values.errors, threads'[tid].values.errors)
             /\ \A node \in FanOutNodes :
                   Keeps(threads[tid].task_writes[node].errors,
                         threads'[tid].values.errors) ]_vars

\* C26: the barrier of a fan-out is followed by create_final_plan, once: after
\* the step in which the three branches' writes are applied, create_final_plan
\* alone is the run's next superstep.
C26_FinalPlanOncePerFanOut ==
    [][ \A tid \in DOMAIN threads :
          FanOutBarrierStep(tid)
          => /\ threads'[tid].status = "running"
             /\ threads'[tid].next = {"create_final_plan"} ]_vars

C30_BranchesRunOnValidDetails ==
    \A tid \in DOMAIN threads :
        LET travel_details == threads[tid].values.travel_details
            writes == threads[tid].task_writes
        IN  /\ threads[tid].next = FanOutNodes => ~NeedsInput(travel_details)
            /\ ( Routed(tid) /\ "error" \in DOMAIN travel_details )
               => threads[tid].next = {"get_next_user_message"}
            /\ \A node \in DOMAIN writes \cap FanOutNodes :
                  writes[node].errors # <<"Travel details incomplete">>

\* C30 witness: two branches have run on a complete extraction.
C30_Witness ==
    \E tid \in DOMAIN threads :
        /\ threads[tid].next = FanOutNodes
        /\ Cardinality(DOMAIN threads[tid].task_writes) = 2
        /\ FlagIsTrue(threads[tid].values.travel_details)
        /\ ~SomeRequiredFieldUnfilled(threads[tid].values.travel_details)

\* C28: the message history is append-only: after a step the history held
\* before is a prefix of the history held after, and the extraction's new
\* messages come after it.
C28_MessagesAppendOnly ==
    node_result # NotRun
    => /\ IsPrefix(node_state.messages, node_result.values.messages)
       /\ "messages" \in DOMAIN node_result.update
          => node_result.values.messages =
                node_state.messages \o node_result.update.messages

\* C28 witness: gather_info ran on a state with a history and added to it.
C28_Witness ==
    /\ node_result # NotRun
    /\ node_result.node = "gather_info"
    /\ node_state.messages # <<>>
    /\ Len(node_result.values.messages) = Len(node_state.messages) + 1

\* C29: no step changes thread_id, preferred_airlines, hotel_amenities or
\* budget_level: no node writes them and after the step they are as before.
C29_FixedFieldsUnchanged ==
    node_result # NotRun
    => \A field \in FixedFields :
          /\ field \notin DOMAIN node_result.update
          /\ node_result.values[field] = node_state[field]

\* C29 witness: get_next_user_message returned the caller's new input and the
\* state took it.
C29_Witness ==
    /\ node_result # NotRun
    /\ node_result.node = "get_next_user_message"
    /\ node_result.values.user_input # node_state.user_input

====
